---- MODULE Spec2Model ----
(***************************************************************************)
(* GoMapLLRB: an ordered map on a left-leaning red-black tree (2-3-4       *)
(* variant), with parent back-references, a fast and a safe iterator.      *)
(*                                                                         *)
(* Memory is a heap: a function from node addresses to Node records.  A    *)
(* pointer is an address, Nil is the nil pointer.  Every function of the   *)
(* source that writes through pointers takes the memory m = [h, root, len] *)
(* (the heap and the Tree struct's fields) and returns the memory after    *)
(* its assignments, applied in the order of the source.  The counters      *)
(* (stats, the Tree's, and pstats, the package's) are two more fields of   *)
(* the memory in the specifications that observe them; no function reads   *)
(* a counter to decide what it does, so the other specifications leave     *)
(* both fields out.                                                        *)
(***************************************************************************)
EXTENDS Integers, Sequences, FiniteSets, TLC

VARIABLES tree, it, out, ended, last, kept, moments, lookups

vars == <<tree, it, out, ended, last, kept, moments, lookups>>

\* ------------------------------------------------------------------ bounds
MaxKey == 5
MaxVal == 2

Keys == 1..MaxKey
Vals == 1..MaxVal
\* boundaries handed to Range: every key, one below and one above
Bounds == 0..(MaxKey + 1)
\* keys and values of the specifications whose state holds more than the
\* tree and one loop over it
MaxFewKey == 4
FewKeys == 1..MaxFewKey
FewVals == {MaxVal}
\* calls of Put and Delete between two calls of ResetStats
MaxCalls == 3
\* goroutines that look keys up at the same time, and lookups of each
MaxNodes == 4
MaxMoments == 3
MaxGoroutines == 2
MaxLookups == 1
Goroutines == 1..MaxGoroutines

\* --------------------------------------------------------------- constants
LLRB234 == TRUE

Nil == 0
\* the zero value of K and the nil interface{}
ZeroKey == 0
NilData == 0

\* ------------------------------------------------------------------- nodes
\* IsLess with the order of the keys reversed
isGreater(a, b) == a > b

isLess(a, b) == a < b

isRed(h, node) == IF node = Nil THEN FALSE ELSE h[node].red

\* -------------------------------------------------------------- counters
\* the zero values of PerfStats and Stats
NoPerf == [Flip |-> 0, Rotate |-> [Sum |-> 0, Left |-> 0, Right |-> 0]]

NoStats ==
    [Put    |-> [Sum |-> 0, New |-> 0, Update |-> 0],
     Delete |-> [Sum |-> 0, Deleted |-> 0, NotFound |-> 0],
     Get    |-> [Sum |-> 0, Found |-> 0, NotFound |-> 0],
     Perf   |-> NoPerf]

Counted(m) == "stats" \in DOMAIN m

\* tree.stats.<group>.<field>++
Count(m, group, field) ==
    IF Counted(m) THEN [m EXCEPT !.stats[group][field] = @ + 1] ELSE m

\* pstats.Flip++
CountFlip(m) ==
    IF Counted(m) THEN [m EXCEPT !.pstats.Flip = @ + 1] ELSE m

\* pstats.Rotate.<side>++
CountRotate(m, side) ==
    IF Counted(m) THEN [m EXCEPT !.pstats.Rotate[side] = @ + 1] ELSE m

\* newNode with the data field left out of the struct literal
newNodeNoData(m, name, data) ==
    LET id == CHOOSE i \in 1..(Cardinality(DOMAIN m.h) + 1) :
                  /\ i \notin DOMAIN m.h
                  /\ \A j \in 1..(i - 1) : j \in DOMAIN m.h
        n  == [name |-> name, data |-> NilData, red |-> TRUE,
               up |-> Nil, left |-> Nil, right |-> Nil]
    IN  [m |-> [m EXCEPT !.h = (id :> n) @@ m.h], node |-> id]

newNode(m, name, data) ==
    LET id == CHOOSE i \in 1..(Cardinality(DOMAIN m.h) + 1) :
                  /\ i \notin DOMAIN m.h
                  /\ \A j \in 1..(i - 1) : j \in DOMAIN m.h
        n  == [name |-> name, data |-> data, red |-> TRUE,
               up |-> Nil, left |-> Nil, right |-> Nil]
    IN  [m |-> [m EXCEPT !.h = (id :> n) @@ m.h], node |-> id]

\* -------------------------------------------------- balancing primitives
\* In each function the local operators are the statements of the source in
\* their order; each takes the memory the statement before it has left.

\* flipColor that toggles the two children and not the node
flipColorChildren(m, node) ==
    LET s2(x) == [x EXCEPT !.h[x.h[node].left].red = ~x.h[x.h[node].left].red]
        s3(x) == [x EXCEPT !.h[x.h[node].right].red = ~x.h[x.h[node].right].red]
    IN  s3(s2(m))

flipColor(m, node) ==
    LET s1(x) == [x EXCEPT !.h[node].red = ~x.h[node].red]
        s2(x) == [x EXCEPT !.h[x.h[node].left].red = ~x.h[x.h[node].left].red]
        s3(x) == [x EXCEPT !.h[x.h[node].right].red = ~x.h[x.h[node].right].red]
    IN  CountFlip(s3(s2(s1(m))))

\* rotateLeft that leaves the colours of the two nodes as they are
rotateLeftNoColor(m, node) ==
    LET n == m.h[node].right
        s1(x) == [x EXCEPT !.h[n].up = x.h[node].up]
        s2(x) == [x EXCEPT !.h[node].up = n]
        s3(x) == [x EXCEPT !.h[node].right = x.h[n].left]
        s4(x) == [x EXCEPT !.h[n].left = node]
    IN  [m |-> CountRotate(s4(s3(s2(s1(m)))), "Left"), node |-> n]

rotateLeft(m, node) ==
    LET n == m.h[node].right
        s1(x) == [x EXCEPT !.h[n].up = x.h[node].up]
        s2(x) == [x EXCEPT !.h[node].up = n]
        s3(x) == [x EXCEPT !.h[node].right = x.h[n].left]
        s4(x) == [x EXCEPT !.h[n].left = node]
        s5(x) == [x EXCEPT !.h[n].red = x.h[x.h[n].left].red]
        s6(x) == [x EXCEPT !.h[x.h[n].left].red = TRUE]
    IN  [m |-> CountRotate(s6(s5(s4(s3(s2(s1(m)))))), "Left"), node |-> n]

\* rotateRight that leaves the colours of the two nodes as they are
rotateRightNoColor(m, node) ==
    LET n == m.h[node].left
        s1(x) == [x EXCEPT !.h[n].up = x.h[node].up]
        s2(x) == [x EXCEPT !.h[node].up = n]
        s3(x) == [x EXCEPT !.h[node].left = x.h[n].right]
        s4(x) == [x EXCEPT !.h[n].right = node]
    IN  [m |-> CountRotate(s4(s3(s2(s1(m)))), "Right"), node |-> n]

rotateRight(m, node) ==
    LET n == m.h[node].left
        s1(x) == [x EXCEPT !.h[n].up = x.h[node].up]
        s2(x) == [x EXCEPT !.h[node].up = n]
        s3(x) == [x EXCEPT !.h[node].left = x.h[n].right]
        s4(x) == [x EXCEPT !.h[n].right = node]
        s5(x) == [x EXCEPT !.h[n].red = x.h[x.h[n].right].red]
        s6(x) == [x EXCEPT !.h[x.h[n].right].red = TRUE]
    IN  [m |-> CountRotate(s6(s5(s4(s3(s2(s1(m)))))), "Right"), node |-> n]

\* node.left = r.node and node.right = r.node, r the result of a call that
\* returns the memory it leaves and a node
SetLeft(r, node) == [r.m EXCEPT !.h[node].left = r.node]

SetRight(r, node) == [r.m EXCEPT !.h[node].right = r.node]

moveRedLeft(m, node) ==
    LET \* node.right = rotateRight(node.right)
        s2(x) == SetRight(rotateRight(x, x.h[node].right), node)
        \* node = rotateLeft(node)
        s3(x) == rotateLeft(x, node)
        \* flipColor(node)
        s4(r) == [m |-> flipColor(r.m, r.node), node |-> r.node]
        \* if isRed(node.right.right) { node.right = rotateLeft(node.right) }
        s5(r) == IF LLRB234 /\ isRed(r.m.h, r.m.h[r.m.h[r.node].right].right)
                 THEN [m |-> SetRight(rotateLeft(r.m, r.m.h[r.node].right), r.node),
                       node |-> r.node]
                 ELSE r
        body(x) == IF isRed(x.h, x.h[x.h[node].right].left)
                   THEN s5(s4(s3(s2(x))))
                   ELSE [m |-> x, node |-> node]
    IN  body(flipColor(m, node))

\* moveRedRight without the flip that follows its rotation
moveRedRightNoFlip(m, node) ==
    LET body(x) == IF isRed(x.h, x.h[x.h[node].left].left)
                   THEN rotateRight(x, node)
                   ELSE [m |-> x, node |-> node]
    IN  body(flipColor(m, node))

moveRedRight(m, node) ==
    LET s2(r) == [m |-> flipColor(r.m, r.node), node |-> r.node]
        body(x) == IF isRed(x.h, x.h[x.h[node].left].left)
                   THEN s2(rotateRight(x, node))
                   ELSE [m |-> x, node |-> node]
    IN  body(flipColor(m, node))

\* fixNode that leaves a red right child where it is
fixNodeNoLeft(m, node) ==
    IF /\ isRed(m.h, m.h[node].left)
       /\ isRed(m.h, m.h[m.h[node].left].left)
    THEN rotateRight(m, node)
    ELSE [m |-> m, node |-> node]

fixNode(m, node) ==
    LET \* rotate right red to left
        s1a(x) == IF LLRB234 /\ isRed(x.h, x.h[x.h[node].right].left)
                  THEN SetRight(rotateRight(x, x.h[node].right), node)
                  ELSE x
        s1(x) == IF isRed(x.h, x.h[node].right)
                 THEN rotateLeft(s1a(x), node)
                 ELSE [m |-> x, node |-> node]
        \* rotate left red-red to right
        s2(r) == IF /\ isRed(r.m.h, r.m.h[r.node].left)
                    /\ isRed(r.m.h, r.m.h[r.m.h[r.node].left].left)
                 THEN rotateRight(r.m, r.node)
                 ELSE r
        \* split 4-nodes
        s3(r) == IF /\ ~LLRB234
                    /\ isRed(r.m.h, r.m.h[r.node].left)
                    /\ isRed(r.m.h, r.m.h[r.node].right)
                 THEN [m |-> flipColor(r.m, r.node), node |-> r.node]
                 ELSE r
    IN  s3(s2(s1(m)))

findMin(h, node) ==
    LET RECURSIVE walk(_)
        walk(n) == IF h[n].left # Nil THEN walk(h[n].left) ELSE n
    IN  IF node = Nil THEN Nil ELSE walk(node)

findMax(h, node) ==
    LET RECURSIVE walk(_)
        walk(n) == IF h[n].right # Nil THEN walk(h[n].right) ELSE n
    IN  IF node = Nil THEN Nil ELSE walk(node)

RECURSIVE deleteMin(_, _)
deleteMin(m, node) ==
    LET s1(x) == IF /\ ~isRed(x.h, x.h[node].left)
                    /\ ~isRed(x.h, x.h[x.h[node].left].left)
                 THEN moveRedLeft(x, node)
                 ELSE [m |-> x, node |-> node]
        \* node.left, min = deleteMin(node.left); return fixNode(node), min
        s3(d, n) == [m    |-> fixNode(SetLeft(d, n), n).m,
                     node |-> fixNode(SetLeft(d, n), n).node,
                     min  |-> d.min]
        s2(r) == s3(deleteMin(r.m, r.m.h[r.node].left), r.node)
    IN  IF m.h[node].left = Nil
        THEN [m |-> m, node |-> Nil, min |-> node]
        ELSE s2(s1(m))

\* ------------------------------------------------ put, delete, get, bigger
RECURSIVE put(_, _, _, _)
put(m, node, name, data) ==
    LET \* split 4-nodes on the way down
        s1(x) == IF /\ LLRB234
                    /\ isRed(x.h, x.h[node].left)
                    /\ isRed(x.h, x.h[node].right)
                 THEN flipColor(x, node)
                 ELSE x
        \* node.left.up = node and node.right.up = node
        upLeft(x) == [x EXCEPT !.h[x.h[node].left].up = node]
        upRight(x) == [x EXCEPT !.h[x.h[node].right].up = node]
        s2(x) == IF isLess(name, x.h[node].name)
                 THEN upLeft(SetLeft(put(x, x.h[node].left, name, data), node))
                 ELSE IF isLess(x.h[node].name, name)
                 THEN upRight(SetRight(put(x, x.h[node].right, name, data), node))
                 ELSE Count([x EXCEPT !.h[node].data = data], "Put", "Update")
        \* fix right-leaning reds on the way up
        s3(x) == IF /\ isRed(x.h, x.h[node].right)
                    /\ ~isRed(x.h, x.h[node].left)
                 THEN rotateLeft(x, node)
                 ELSE [m |-> x, node |-> node]
        \* fix two reds in a row on the way up
        s4(r) == IF /\ isRed(r.m.h, r.m.h[r.node].left)
                    /\ isRed(r.m.h, r.m.h[r.m.h[r.node].left].left)
                 THEN rotateRight(r.m, r.node)
                 ELSE r
        \* split 4-nodes on the way up
        s5(r) == IF /\ ~LLRB234
                    /\ isRed(r.m.h, r.m.h[r.node].left)
                    /\ isRed(r.m.h, r.m.h[r.node].right)
                 THEN [m |-> flipColor(r.m, r.node), node |-> r.node]
                 ELSE r
    IN  IF node = Nil
        THEN newNode(Count([m EXCEPT !.len = @ + 1], "Put", "New"), name, data)
        ELSE s5(s4(s3(s2(s1(m)))))

RECURSIVE delete(_, _, _)
delete(m, node, name) ==
    LET \* return fixNode(node), deleted
        ret(x, n, deleted) == [m       |-> fixNode(x, n).m,
                               node    |-> fixNode(x, n).node,
                               deleted |-> deleted]
        \* ---- name is less than node.name
        \* move red left
        l1(x) == IF /\ x.h[node].left # Nil
                    /\ ~isRed(x.h, x.h[node].left)
                    /\ ~isRed(x.h, x.h[x.h[node].left].left)
                 THEN moveRedLeft(x, node)
                 ELSE [m |-> x, node |-> node]
        \* node.left, deleted = tree.delete(node.left, name)
        l3(d, n) == ret(SetLeft(d, n), n, d.deleted)
        l2(r) == l3(delete(r.m, r.m.h[r.node].left, name), r.node)
        \* ---- right or equal
        r1(x) == IF isRed(x.h, x.h[node].left)
                 THEN rotateRight(x, node)
                 ELSE [m |-> x, node |-> node]
        \* move red right
        r3(r) == IF /\ r.m.h[r.node].right # Nil
                    /\ ~isRed(r.m.h, r.m.h[r.node].right)
                    /\ ~isRed(r.m.h, r.m.h[r.m.h[r.node].right].left)
                 THEN moveRedRight(r.m, r.node)
                 ELSE r
        \* found in the middle: node.right, min = deleteMin(node.right), then
        \* the min node is copied to this one; 'deleted' is not assigned and
        \* keeps the false it was declared with
        c1(x, n, min) == [x EXCEPT !.h[n].name = x.h[min].name]
        c2(x, n, min) == [x EXCEPT !.h[n].data = x.h[min].data]
        c3(x) == Count([x EXCEPT !.len = @ - 1], "Delete", "Deleted")
        r5(d, n) == ret(c3(c2(c1(SetRight(d, n), n, d.min), n, d.min)), n, FALSE)
        \* keep going down to the right
        r6(d, n) == ret(SetRight(d, n), n, d.deleted)
        r4(r) == IF ~isLess(r.m.h[r.node].name, name)
                 THEN r5(deleteMin(r.m, r.m.h[r.node].right), r.node)
                 ELSE r6(delete(r.m, r.m.h[r.node].right, name), r.node)
        \* remove if equal at the bottom
        r2(r) == IF /\ r.m.h[r.node].right = Nil
                    /\ ~isLess(r.m.h[r.node].name, name)
                 THEN [m |-> Count([r.m EXCEPT !.len = @ - 1], "Delete", "Deleted"),
                       node |-> Nil, deleted |-> TRUE]
                 ELSE r4(r3(r))
    IN  IF node = Nil
        THEN [m |-> Count(m, "Delete", "NotFound"), node |-> Nil,
              deleted |-> FALSE]
        ELSE IF isLess(name, m.h[node].name)
        THEN l2(l1(m))
        ELSE r2(r1(m))

RECURSIVE get(_, _, _)
get(h, node, name) ==
    IF node = Nil THEN Nil
    ELSE IF isLess(name, h[node].name) THEN get(h, h[node].left, name)
    ELSE IF isLess(h[node].name, name) THEN get(h, h[node].right, name)
    ELSE node

RECURSIVE bigger(_, _, _, _)
bigger(h, node, name, equal) ==
    LET orThis(n) == IF n = Nil THEN node ELSE n
    IN  IF node = Nil THEN Nil
        ELSE IF isLess(name, h[node].name)
        THEN orThis(bigger(h, h[node].left, name, equal))
        ELSE IF isLess(h[node].name, name) THEN bigger(h, h[node].right, name, equal)
        ELSE IF ~equal THEN bigger(h, h[node].right, name, equal)
        ELSE node

RECURSIVE smaller(_, _, _, _)
smaller(h, node, name, equal) ==
    LET orThis(n) == IF n = Nil THEN node ELSE n
    IN  IF node = Nil THEN Nil
        ELSE IF isLess(name, h[node].name) THEN smaller(h, h[node].left, name, equal)
        ELSE IF isLess(h[node].name, name)
        THEN orThis(smaller(h, h[node].right, name, equal))
        ELSE IF ~equal THEN smaller(h, h[node].left, name, equal)
        ELSE node

\* ------------------------------------------------------------ public API
\* tree.root = r.node, r the result of put or delete
SetRoot(r) == [r.m EXCEPT !.root = r.node]

\* Put that does not paint the root black
PutRedRoot(m, name, data) == SetRoot(put(m, m.root, name, data))

Put(m, name, data) ==
    LET s2(x) == [x EXCEPT !.h[x.root].red = FALSE]
    IN  s2(SetRoot(put(m, m.root, name, data)))

\* Delete that does not store the root that delete returns
DeleteKeepRoot(m, name) ==
    LET s2(x) == IF x.root # Nil THEN [x EXCEPT !.h[x.root].red = FALSE] ELSE x
        s1(r) == [m |-> s2(r.m), deleted |-> r.deleted]
    IN  s1(delete(m, m.root, name))

Delete(m, name) ==
    LET s2(x) == IF x.root # Nil THEN [x EXCEPT !.h[x.root].red = FALSE] ELSE x
        s1(r) == [m |-> s2(SetRoot(r)), deleted |-> r.deleted]
    IN  s1(delete(m, m.root, name))

Get(m, name) ==
    LET val(node) == IF node # Nil THEN m.h[node].data ELSE NilData
    IN  val(get(m.h, m.root, name))

Exist(m, name) == get(m.h, m.root, name) # Nil

\* return node.name, node.data, true, or the zero key, nil, false
Found(h, node) ==
    IF node # Nil
    THEN [key |-> h[node].name, val |-> h[node].data, found |-> TRUE]
    ELSE [key |-> ZeroKey, val |-> NilData, found |-> FALSE]

Min(m) == Found(m.h, findMin(m.h, m.root))

\* Max that answers with the root
MaxOfRoot(m) == Found(m.h, m.root)

Max(m) == Found(m.h, findMax(m.h, m.root))

\* Bigger that lets an equal key match
BiggerOrEqual(m, name) == Found(m.h, bigger(m.h, m.root, name, TRUE))

Bigger(m, name) == Found(m.h, bigger(m.h, m.root, name, FALSE))

\* Smaller that lets an equal key match
SmallerOrEqual(m, name) == Found(m.h, smaller(m.h, m.root, name, TRUE))

Smaller(m, name) == Found(m.h, smaller(m.h, m.root, name, FALSE))

EqualOrBigger(m, name) == Found(m.h, bigger(m.h, m.root, name, TRUE))

EqualOrSmaller(m, name) == Found(m.h, smaller(m.h, m.root, name, TRUE))

\* Clear that does not reset the count
ClearKeepLen(m) == [m EXCEPT !.root = Nil]

\* Clear that empties the statistics with the tree
ClearAndReset(m) ==
    IF Counted(m)
    THEN [m EXCEPT !.root = Nil, !.len = 0, !.stats = NoStats]
    ELSE [m EXCEPT !.root = Nil, !.len = 0]

Clear(m) == [m EXCEPT !.root = Nil, !.len = 0]

TreeLen(m) == m.len

\* Stats fills the sums in, copies pstats into tree.stats.Perf and returns
\* a copy of tree.stats
Stats(m) ==
    LET s1(x) == [x EXCEPT !.stats.Put.Sum = x.stats.Put.New + x.stats.Put.Update]
        s2(x) == [x EXCEPT !.stats.Get.Sum = x.stats.Get.Found + x.stats.Get.NotFound]
        s3(x) == [x EXCEPT !.stats.Delete.Sum =
                               x.stats.Delete.Deleted + x.stats.Delete.NotFound]
        s4(x) == [x EXCEPT !.stats.Perf = x.pstats]
        s5(x) == [x EXCEPT !.stats.Perf.Rotate.Sum =
                               x.stats.Perf.Rotate.Left + x.stats.Perf.Rotate.Right]
        s6(x) == [m |-> x, stats |-> x.stats]
    IN  s6(s5(s4(s3(s2(s1(m))))))

\* ResetStats that leaves the counters of Put as they are
ResetStatsKeepPut(m) ==
    [m EXCEPT !.stats = [NoStats EXCEPT !.Put = m.stats.Put], !.pstats = NoPerf]

ResetStats(m) == [m EXCEPT !.stats = NoStats, !.pstats = NoPerf]

\* ---------------------------------------------------------- fast iterator
NoIter ==
    [kind |-> "none", cur |-> Nil, last |-> Nil, end |-> ZeroKey,
     span |-> FALSE, done |-> FALSE]

NewIter(cur, end, span) ==
    [kind |-> "fast", cur |-> cur, last |-> Nil, end |-> end,
     span |-> span, done |-> (cur = Nil)]

Iter(m) == NewIter(findMin(m.h, m.root), ZeroKey, FALSE)

Range(m, start, end) == NewIter(bigger(m.h, m.root, start, TRUE), end, TRUE)

IterNext(m, i) ==
    LET h == m.h
        \* it.last = it.cur
        s1(x) == [x EXCEPT !.last = x.cur]
        \* go up until bigger value found
        RECURSIVE goUp(_, _)
        goUp(c, x) == IF c # Nil /\ isLess(h[c].name, h[x.last].name)
                      THEN goUp(h[c].up, x)
                      ELSE c
        \* go down again
        goDown(c, x) == IF c # Nil THEN bigger(h, c, h[x.last].name, FALSE) ELSE c
        setCur(x, c) == [x EXCEPT !.cur = c, !.done = (c = Nil)]
        s2b(x, c) == IF c = Nil
                     THEN setCur(x, goDown(goUp(h[x.last].up, x), x))
                     ELSE [x EXCEPT !.cur = c]
        s2(x) == s2b(x, bigger(h, h[x.cur].right, h[x.cur].name, FALSE))
        s3(x) == IF ~x.done /\ x.span /\ isLess(x.end, h[x.cur].name)
                 THEN [x EXCEPT !.done = TRUE]
                 ELSE x
    IN  IF i.done
        THEN [it |-> i, ret |-> FALSE]
        ELSE [it |-> s3(s2(s1(i))), ret |-> TRUE]

\* Key that reads the node the cursor is on
KeyOfCur(m, i) == IF i.cur = Nil THEN ZeroKey ELSE m.h[i.cur].name

Key(m, i) == IF i.last = Nil THEN ZeroKey ELSE m.h[i.last].name

Val(m, i) == IF i.last = Nil THEN NilData ELSE m.h[i.last].data

\* ---------------------------------------------------------- safe iterator
\* cur and last are keys; the zero value of the struct has the zero key
NewIterSafe(r, end, span) ==
    [kind |-> "safe", cur |-> r.key, last |-> ZeroKey, end |-> end,
     span |-> span, done |-> ~r.found]

\* IterSafe that starts from the largest key
IterSafeFromMax(m) == NewIterSafe(Max(m), ZeroKey, FALSE)

IterSafe(m) == NewIterSafe(Min(m), ZeroKey, FALSE)

RangeSafe(m, start, end) == NewIterSafe(EqualOrBigger(m, start), end, TRUE)

\* Next that looks for the key after the one returned before
IterSafeNextFromLast(m, i) ==
    LET s2(x, r) == [x EXCEPT !.last = x.cur, !.cur = r.key,
                              !.done = IF ~r.found THEN TRUE ELSE @]
        s3(x) == IF ~x.done /\ x.span /\ isLess(x.end, x.cur)
                 THEN [x EXCEPT !.done = TRUE]
                 ELSE x
    IN  IF i.done
        THEN [it |-> i, ret |-> FALSE]
        ELSE [it |-> s3(s2(i, Bigger(m, i.last))), ret |-> TRUE]

\* Next that looks again for a bigger key after it has returned false
IterSafeNextAgain(m, i) ==
    LET s1(x) == [x EXCEPT !.last = x.cur]
        s2(x, r) == [x EXCEPT !.cur = r.key,
                              !.done = IF ~r.found THEN TRUE ELSE @]
        s3(x) == IF ~x.done /\ x.span /\ isLess(x.end, x.cur)
                 THEN [x EXCEPT !.done = TRUE]
                 ELSE x
    IN  IF i.done /\ ~Bigger(m, i.last).found
        THEN [it |-> i, ret |-> FALSE]
        ELSE [it |-> s3(s2(s1(i), Bigger(m, i.cur))), ret |-> TRUE]

IterSafeNext(m, i) ==
    LET \* it.last = it.cur
        s1(x) == [x EXCEPT !.last = x.cur]
        \* it.cur, _, exist = it.tree.Bigger(it.cur)
        s2(x, r) == [x EXCEPT !.cur = r.key,
                              !.done = IF ~r.found THEN TRUE ELSE @]
        s3(x) == IF ~x.done /\ x.span /\ isLess(x.end, x.cur)
                 THEN [x EXCEPT !.done = TRUE]
                 ELSE x
    IN  IF i.done
        THEN [it |-> i, ret |-> FALSE]
        ELSE [it |-> s3(s2(s1(i), Bigger(m, i.cur))), ret |-> TRUE]

\* Key that returns the cursor
IterSafeKeyOfCur(i) == i.cur

IterSafeKey(i) == i.last

IterSafeVal(m, i) == Get(m, i.last)

\* Map: m[it.Key()] = it.Val() for every round of a loop over tree.Iter()
Map(m) ==
    LET RECURSIVE loop(_, _)
        store(r, acc) == IF r.ret
                         THEN loop(r.it, (Key(m, r.it) :> Val(m, r.it)) @@ acc)
                         ELSE acc
        loop(i, acc) == store(IterNext(m, i), acc)
    IN  loop(Iter(m), <<>>)

\* --------------------------------------------------------------- memory
\* Nodes no pointer leads to any more are collected, and the nodes that stay
\* are renumbered in the order a walk from the roots meets them: an address
\* is only ever compared with another address, so the program cannot tell
\* two memories apart that differ by a renumbering.
\* Walk(h, node, w): w, the walk so far (its nodes in the order it met them,
\* and the new address of each), extended with the nodes that node leads to.
RECURSIVE Walk(_, _, _)
Walk(h, node, w) ==
    IF node = Nil \/ node \in DOMAIN w.addr THEN w
    ELSE Walk(h, h[node].up,
              Walk(h, h[node].right,
                   Walk(h, h[node].left,
                        [order |-> Append(w.order, node),
                         addr  |-> (node :> (Len(w.order) + 1)) @@ w.addr])))

Renumber(m, i, w) ==
    LET addr(n) == IF n = Nil THEN Nil ELSE w.addr[n]
    IN  [m  |-> [m EXCEPT !.h = [j \in 1..Len(w.order) |->
                                   [m.h[w.order[j]] EXCEPT !.up = addr(@),
                                                           !.left = addr(@),
                                                           !.right = addr(@)]],
                          !.root = addr(@)],
         it |-> IF i.kind = "fast"
                THEN [i EXCEPT !.cur = addr(@), !.last = addr(@)]
                ELSE i]

Compact(m, i) ==
    LET fromRoot == Walk(m.h, m.root, [order |-> <<>>, addr |-> <<>>])
    IN  Renumber(m, i,
                 IF i.kind = "fast"
                 THEN Walk(m.h, i.last, Walk(m.h, i.cur, fromRoot))
                 ELSE fromRoot)

\* ------------------------------------------------------------ the program
\* tree: the memory [h, root, len].  it: the caller's iterator.  out: the
\* keys the caller's loop has read with Key() after each successful Next().
\* ended: Next() has returned false on it.  last: the latest call of the
\* caller other than Next(), Key() and Val(), with its arguments and its
\* result.  kept: the keys that have been present ever since the caller's
\* safe iterator was created.  moments: the contents the container has had
\* since the Map() call that is running began.  lookups: for each goroutine
\* that calls Get, where it is in the call, the counter it has read, and how
\* many of its calls have found and not found their key.
NoLookups ==
    [g \in Goroutines |->
        [pc |-> "idle", field |-> "Found", reg |-> 0, found |-> 0, notFound |-> 0]]

Call(op, key, val, ret) == [op |-> op, key |-> key, val |-> val, ret |-> ret]

Init ==
    /\ tree = [h |-> <<>>, root |-> Nil, len |-> 0]
    /\ it = NoIter
    /\ out = <<>>
    /\ ended = FALSE
    /\ last = Call("New", ZeroKey, NilData, TRUE)
    /\ kept = {}
    /\ moments = <<>>
    /\ lookups = NoLookups

\* The caller is sequential and runs a loop over an iterator to its end
\* before its next call of Put, Delete, Clear, Iter or Range.
Idle == it.kind = "none" \/ ended

\* A mutation leaves the caller without an iterator.
PutCall(k, v) ==
    /\ Idle
    /\ tree' = Compact(Put(tree, k, v), NoIter).m
    /\ it' = NoIter
    /\ out' = <<>>
    /\ ended' = FALSE
    /\ last' = Call("Put", k, v, TRUE)
    /\ kept' = {}
    /\ UNCHANGED <<moments, lookups>>

DeleteCall(k) ==
    /\ Idle
    /\ \E r \in {Delete(tree, k)} :
          /\ tree' = Compact(r.m, NoIter).m
          /\ last' = Call("Delete", k, NilData, r.deleted)
    /\ it' = NoIter
    /\ out' = <<>>
    /\ ended' = FALSE
    /\ kept' = {}
    /\ UNCHANGED <<moments, lookups>>

ClearCall ==
    /\ Idle
    /\ tree' = Compact(Clear(tree), NoIter).m
    /\ it' = NoIter
    /\ out' = <<>>
    /\ ended' = FALSE
    /\ last' = Call("Clear", ZeroKey, NilData, TRUE)
    /\ kept' = {}
    /\ UNCHANGED <<moments, lookups>>

IterCall ==
    /\ Idle
    /\ it' = Iter(tree)
    /\ out' = <<>>
    /\ ended' = FALSE
    /\ last' = Call("Iter", ZeroKey, ZeroKey, TRUE)
    /\ kept' = {}
    /\ UNCHANGED <<moments, lookups>>
    /\ UNCHANGED tree

RangeCall(lo, hi) ==
    /\ Idle
    /\ it' = Range(tree, lo, hi)
    /\ out' = <<>>
    /\ ended' = FALSE
    /\ last' = Call("Range", lo, hi, TRUE)
    /\ kept' = {}
    /\ UNCHANGED <<moments, lookups>>
    /\ UNCHANGED tree

\* one round of the caller's loop: Next(), then Key() when it returned true
NextCall ==
    /\ it.kind = "fast"
    /\ \E r \in {IterNext(tree, it)} :
          /\ it' = r.it
          /\ out' = IF r.ret THEN Append(out, Key(tree, r.it)) ELSE out
          /\ ended' = ~r.ret
    /\ UNCHANGED <<tree, last, kept>>
    /\ UNCHANGED <<moments, lookups>>

Next ==
    \/ \E k \in Keys, v \in Vals : PutCall(k, v)
    \/ \E k \in Keys : DeleteCall(k)
    \/ ClearCall
    \/ IterCall
    \/ \E lo \in Bounds, hi \in Bounds : RangeCall(lo, hi)
    \/ NextCall

Spec == Init /\ [][Next]_vars

\* The same program when the caller uses Put, Delete and Clear only.
NextTree ==
    \/ \E k \in Keys, v \in Vals : PutCall(k, v)
    \/ \E k \in Keys : DeleteCall(k)
    \/ ClearCall

SpecTree == Init /\ [][NextTree]_vars

\* ------------------------------------------------------------- getters
\* A getter leaves the tree as it is; the caller keeps what it returned.
MinCall ==
    /\ Idle
    /\ last' = Call("Min", ZeroKey, NilData, Min(tree))
    /\ UNCHANGED <<tree, it, out, ended, kept>>
    /\ UNCHANGED <<moments, lookups>>

MaxCall ==
    /\ Idle
    /\ last' = Call("Max", ZeroKey, NilData, Max(tree))
    /\ UNCHANGED <<tree, it, out, ended, kept>>
    /\ UNCHANGED <<moments, lookups>>

BiggerCall(k) ==
    /\ Idle
    /\ last' = Call("Bigger", k, NilData, Bigger(tree, k))
    /\ UNCHANGED <<tree, it, out, ended, kept>>
    /\ UNCHANGED <<moments, lookups>>

SmallerCall(k) ==
    /\ Idle
    /\ last' = Call("Smaller", k, NilData, Smaller(tree, k))
    /\ UNCHANGED <<tree, it, out, ended, kept>>
    /\ UNCHANGED <<moments, lookups>>

EqualOrBiggerCall(k) ==
    /\ Idle
    /\ last' = Call("EqualOrBigger", k, NilData, EqualOrBigger(tree, k))
    /\ UNCHANGED <<tree, it, out, ended, kept>>
    /\ UNCHANGED <<moments, lookups>>

EqualOrSmallerCall(k) ==
    /\ Idle
    /\ last' = Call("EqualOrSmaller", k, NilData, EqualOrSmaller(tree, k))
    /\ UNCHANGED <<tree, it, out, ended, kept>>
    /\ UNCHANGED <<moments, lookups>>

MapCall ==
    /\ Idle
    /\ last' = Call("Map", ZeroKey, NilData, Map(tree))
    /\ UNCHANGED <<tree, it, out, ended, kept>>
    /\ UNCHANGED <<moments, lookups>>

\* The program when the caller uses Put, Delete, Clear and the getters.
NextGetters ==
    \/ \E k \in Keys, v \in Vals : PutCall(k, v)
    \/ \E k \in Keys : DeleteCall(k)
    \/ ClearCall
    \/ MinCall
    \/ MaxCall
    \/ \E k \in Bounds : BiggerCall(k)
    \/ \E k \in Bounds : SmallerCall(k)
    \/ \E k \in Bounds : EqualOrBiggerCall(k)
    \/ \E k \in Bounds : EqualOrSmallerCall(k)
    \/ MapCall

SpecGetters == Init /\ [][NextGetters]_vars

\* ------------------------------------------------ safe iterator's caller
\* The caller creates a safe iterator between two loops, as it does a fast
\* one.
IterSafeCall ==
    /\ Idle
    /\ it' = IterSafe(tree)
    /\ out' = <<>>
    /\ ended' = FALSE
    /\ last' = Call("IterSafe", ZeroKey, ZeroKey, TRUE)
    /\ kept' = {k \in Keys : Exist(tree, k)}
    /\ UNCHANGED <<moments, lookups>>
    /\ UNCHANGED tree

RangeSafeCall(lo, hi) ==
    /\ Idle
    /\ it' = RangeSafe(tree, lo, hi)
    /\ out' = <<>>
    /\ ended' = FALSE
    /\ last' = Call("RangeSafe", lo, hi, TRUE)
    /\ kept' = {k \in Keys : Exist(tree, k)}
    /\ UNCHANGED <<moments, lookups>>
    /\ UNCHANGED tree

\* one round of the caller's loop: Next(), then Key() when it returned true
NextSafeCall ==
    /\ it.kind = "safe"
    /\ \E r \in {IterSafeNext(tree, it)} :
          /\ it' = r.it
          /\ out' = IF r.ret THEN Append(out, IterSafeKey(r.it)) ELSE out
          /\ ended' = ~r.ret
    /\ UNCHANGED <<tree, last, kept>>
    /\ UNCHANGED <<moments, lookups>>

\* Put and Delete between two rounds of a loop over a safe iterator, by the
\* caller itself or by another goroutine: each holds the lock from its
\* beginning to its end, and Next() holds it while it runs.
PutDuring(k, v) ==
    /\ it.kind = "safe"
    /\ ~ended
    /\ tree' = Compact(Put(tree, k, v), it).m
    /\ last' = Call("Put", k, v, TRUE)
    /\ UNCHANGED <<it, out, ended, kept>>
    /\ UNCHANGED <<moments, lookups>>

DeleteDuring(k) ==
    /\ it.kind = "safe"
    /\ ~ended
    /\ \E r \in {Delete(tree, k)} :
          /\ tree' = Compact(r.m, it).m
          /\ last' = Call("Delete", k, NilData, r.deleted)
    /\ kept' = kept \ {k}
    /\ UNCHANGED <<moments, lookups>>
    /\ UNCHANGED <<it, out, ended>>

\* The program when the caller runs loops over safe iterators with no
\* mutation during a loop.
NextSafe ==
    \/ \E k \in Keys, v \in Vals : PutCall(k, v)
    \/ \E k \in Keys : DeleteCall(k)
    \/ ClearCall
    \/ IterSafeCall
    \/ \E lo \in Bounds, hi \in Bounds : RangeSafeCall(lo, hi)
    \/ NextSafeCall

SpecSafe == Init /\ [][NextSafe]_vars

\* The program when Put and Delete interleave with the rounds of a loop over
\* IterSafe().
NextMixed ==
    \/ \E k \in FewKeys, v \in FewVals : PutCall(k, v)
    \/ \E k \in FewKeys : DeleteCall(k)
    \/ IterSafeCall
    \/ NextSafeCall
    \/ \E k \in FewKeys, v \in FewVals : PutDuring(k, v)
    \/ \E k \in FewKeys : DeleteDuring(k)

SpecMixed == Init /\ [][NextMixed]_vars

\* ------------------------------------------- reads that take no lock
\* Iter.Key() and Iter.Val() read it.last.name and it.last.data without the
\* lock, so they run while Delete holds it.  delete writes the name and the
\* data of a node in one place only, 'found in the middle': node.name =
\* min.name, then node.data = min.data.
\*
\* deleteUntilCopy(m, node, name): the memory when tree.delete(node, name)
\* has run up to node.name = min.name and has not assigned node.data yet;
\* hit is false when the call ends without passing there.
RECURSIVE deleteUntilCopy(_, _, _)
deleteUntilCopy(m, node, name) ==
    LET \* ---- name is less than node.name
        l1(x) == IF /\ x.h[node].left # Nil
                    /\ ~isRed(x.h, x.h[node].left)
                    /\ ~isRed(x.h, x.h[x.h[node].left].left)
                 THEN moveRedLeft(x, node)
                 ELSE [m |-> x, node |-> node]
        l2(r) == deleteUntilCopy(r.m, r.m.h[r.node].left, name)
        \* ---- right or equal
        r1(x) == IF isRed(x.h, x.h[node].left)
                 THEN rotateRight(x, node)
                 ELSE [m |-> x, node |-> node]
        r3(r) == IF /\ r.m.h[r.node].right # Nil
                    /\ ~isRed(r.m.h, r.m.h[r.node].right)
                    /\ ~isRed(r.m.h, r.m.h[r.m.h[r.node].right].left)
                 THEN moveRedRight(r.m, r.node)
                 ELSE r
        \* node.right, min = deleteMin(node.right); node.name = min.name
        c1(x, n, min) == [x EXCEPT !.h[n].name = x.h[min].name]
        r5(d, n) == [m |-> c1(SetRight(d, n), n, d.min), hit |-> TRUE]
        r4(r) == IF ~isLess(r.m.h[r.node].name, name)
                 THEN r5(deleteMin(r.m, r.m.h[r.node].right), r.node)
                 ELSE deleteUntilCopy(r.m, r.m.h[r.node].right, name)
        r2(r) == IF /\ r.m.h[r.node].right = Nil
                    /\ ~isLess(r.m.h[r.node].name, name)
                 THEN [m |-> r.m, hit |-> FALSE]
                 ELSE r4(r3(r))
    IN  IF node = Nil
        THEN [m |-> m, hit |-> FALSE]
        ELSE IF isLess(name, m.h[node].name)
        THEN l2(l1(m))
        ELSE r2(r1(m))

\* the moments of a Delete at which another goroutine can call Key() and
\* then Val(): the name and the data of a node are those of the memory
\* before Delete up to the copy of the name, and those of the memory after
\* Delete from the copy of the data on
KeyThenVal ==
    {<<"before", "before">>, <<"before", "copying">>, <<"before", "after">>,
     <<"copying", "copying">>, <<"copying", "after">>, <<"after", "after">>}

\* Delete(k) by one goroutine while the goroutine that runs a loop over a
\* fast iterator calls Key() and then Val().
DeleteRacing(k) ==
    /\ it.kind = "fast"
    /\ it.last # Nil
    /\ ~ended
    /\ \E r \in {Delete(tree, k)}, c \in {deleteUntilCopy(tree, tree.root, k)} :
          /\ tree' = Compact(r.m, NoIter).m
          /\ \E t \in KeyThenVal :
                LET at(moment) == IF moment = "before" THEN tree
                                  ELSE IF moment = "copying" THEN c.m
                                  ELSE r.m
                IN  /\ (t[1] = "copying" \/ t[2] = "copying") => c.hit
                    /\ last' = Call("DeleteRacing", k, NilData,
                                    [deleted |-> r.deleted,
                                     key     |-> Key(at(t[1]), it),
                                     val     |-> Val(at(t[2]), it)])
    /\ it' = NoIter
    /\ out' = <<>>
    /\ ended' = FALSE
    /\ kept' = {}
    /\ UNCHANGED <<moments, lookups>>

NextRacing ==
    \/ \E k \in Keys, v \in Vals : PutCall(k, v)
    \/ \E k \in Keys : DeleteCall(k)
    \/ IterCall
    \/ NextCall
    \/ \E k \in Keys : DeleteRacing(k)

SpecRacing == Init /\ [][NextRacing]_vars

\* ------------------------------------------------------------ statistics
\* The tree with its counters, as New() returns it.
InitStats ==
    /\ tree = [h |-> <<>>, root |-> Nil, len |-> 0,
               stats |-> NoStats, pstats |-> NoPerf]
    /\ it = NoIter
    /\ out = <<>>
    /\ ended = FALSE
    /\ last = Call("New", ZeroKey, NilData, TRUE)
    /\ kept = {}
    /\ moments = <<>>
    /\ lookups = NoLookups

\* the calls that tree.stats has counted since the last ResetStats
Calls(m) ==
    m.stats.Put.New + m.stats.Put.Update
        + m.stats.Delete.Deleted + m.stats.Delete.NotFound

StatsCall ==
    /\ \E r \in {Stats(tree)} :
          /\ tree' = r.m
          /\ last' = Call("Stats", ZeroKey, NilData, r.stats)
    /\ UNCHANGED <<it, out, ended, kept>>
    /\ UNCHANGED <<moments, lookups>>

ResetStatsCall ==
    /\ tree' = ResetStats(tree)
    /\ last' = Call("ResetStats", ZeroKey, NilData, TRUE)
    /\ UNCHANGED <<it, out, ended, kept>>
    /\ UNCHANGED <<moments, lookups>>

\* Put and Delete of a caller that resets the counters after MaxCalls
\* counted calls at the latest
PutCounted(k, v) == Calls(tree) < MaxCalls /\ PutCall(k, v)

DeleteCounted(k) == Calls(tree) < MaxCalls /\ DeleteCall(k)

\* The program when the caller uses Put, Delete, Clear, Stats and
\* ResetStats.
NextStats ==
    \/ \E k \in FewKeys, v \in FewVals : PutCounted(k, v)
    \/ \E k \in FewKeys : DeleteCounted(k)
    \/ ClearCall
    \/ StatsCall
    \/ ResetStatsCall

SpecStats == InitStats /\ [][NextStats]_vars

\* ------------------------------------------------- Map() and mutators
\* Map() takes the read lock in Len(), in Iter() and in each Next(), and
\* releases it each time: another goroutine can run Put or Delete, under the
\* write lock, between two rounds of the loop of Map().  last holds the
\* running call of Map() with the map it has built so far; ended says that
\* it has returned.

\* the entries of the container
Contents(m) == [k \in {j \in Keys : Exist(m, j)} |-> Get(m, k)]

\* m := make(map[K]interface{}, tree.Len()); it := tree.Iter()
MapBegin ==
    /\ Idle
    /\ it' = Iter(tree)
    /\ out' = <<>>
    /\ ended' = FALSE
    /\ last' = Call("Map", ZeroKey, NilData, <<>>)
    /\ kept' = {}
    /\ moments' = <<Contents(tree)>>
    /\ UNCHANGED <<tree, lookups>>

\* one round of the loop: it.Next(), then m[it.Key()] = it.Val(), or the
\* return of Map() when Next() returned false
MapStep ==
    /\ last.op = "Map"
    /\ it.kind = "fast"
    /\ ~ended
    /\ \E r \in {IterNext(tree, it)} :
          /\ it' = r.it
          /\ last' = IF r.ret
                     THEN [last EXCEPT !.ret = (Key(tree, r.it) :> Val(tree, r.it)) @@ @]
                     ELSE last
          /\ ended' = ~r.ret
    /\ UNCHANGED <<tree, out, kept, moments, lookups>>

\* Put and Delete of another goroutine while Map() runs, at most
\* MaxMoments - 1 of them during one call
PutDuringMap(k, v) ==
    /\ last.op = "Map"
    /\ it.kind = "fast"
    /\ ~ended
    /\ Len(moments) < MaxMoments
    /\ \E c \in {Compact(Put(tree, k, v), it)} :
          /\ tree' = c.m
          /\ it' = c.it
          /\ moments' = Append(moments, Contents(c.m))
    /\ UNCHANGED <<out, ended, last, kept, lookups>>

DeleteDuringMap(k) ==
    /\ last.op = "Map"
    /\ it.kind = "fast"
    /\ ~ended
    /\ Len(moments) < MaxMoments
    /\ \E c \in {Compact(Delete(tree, k).m, it)} :
          /\ tree' = c.m
          /\ it' = c.it
          /\ moments' = Append(moments, Contents(c.m))
    /\ UNCHANGED <<out, ended, last, kept, lookups>>

NextMap ==
    \/ \E k \in FewKeys, v \in FewVals : PutCall(k, v)
    \/ \E k \in FewKeys : DeleteCall(k)
    \/ MapBegin
    \/ MapStep
    \/ \E k \in FewKeys, v \in FewVals : PutDuringMap(k, v)
    \/ \E k \in FewKeys : DeleteDuringMap(k)

SpecMap == Init /\ [][NextMap]_vars

\* ------------------------------------------ a safe loop that goes on
\* The caller's loop over a safe iterator calls Next() again and again and
\* reads no key, while Put and Delete run between its rounds.
NextSafeOnly ==
    /\ it.kind = "safe"
    /\ \E r \in {IterSafeNext(tree, it)} :
          /\ it' = r.it
          /\ ended' = ~r.ret
    /\ UNCHANGED <<tree, out, last, kept, moments, lookups>>

NextLive ==
    \/ \E k \in FewKeys, v \in FewVals : PutCall(k, v)
    \/ \E k \in FewKeys : DeleteCall(k)
    \/ IterSafeCall
    \/ \E lo \in FewKeys, hi \in FewKeys : RangeSafeCall(lo, hi)
    \/ NextSafeOnly
    \/ \E k \in FewKeys, v \in FewVals : PutDuring(k, v)
    \/ \E k \in FewKeys : DeleteDuring(k)

\* the loop does not stop calling Next(), which takes the read lock between
\* two writers
SpecLive == Init /\ [][NextLive]_vars /\ WF_vars(NextSafeOnly)

\* ------------------------------------------- iterators and mutators
\* A loop over any of the four iterators, with Put and Delete of the caller
\* or of another goroutine between two rounds and after the last one: each
\* of Put, Delete and Next() holds the lock while it runs, and the caller
\* can call Next() again after it has returned false.  moments holds the contents of the
\* container when the iterator was created and after each Put and Delete
\* since; last holds the call that created the iterator.  The caller gives
\* a range its bounds in order.
IterStart ==
    /\ Idle
    /\ it' = Iter(tree)
    /\ out' = <<>>
    /\ ended' = FALSE
    /\ last' = Call("Iter", ZeroKey, ZeroKey, TRUE)
    /\ kept' = {}
    /\ moments' = <<Contents(tree)>>
    /\ UNCHANGED <<tree, lookups>>

RangeStart(lo, hi) ==
    /\ Idle
    /\ lo <= hi
    /\ it' = Range(tree, lo, hi)
    /\ out' = <<>>
    /\ ended' = FALSE
    /\ last' = Call("Range", lo, hi, TRUE)
    /\ kept' = {}
    /\ moments' = <<Contents(tree)>>
    /\ UNCHANGED <<tree, lookups>>

IterSafeStart ==
    /\ Idle
    /\ it' = IterSafe(tree)
    /\ out' = <<>>
    /\ ended' = FALSE
    /\ last' = Call("IterSafe", ZeroKey, ZeroKey, TRUE)
    /\ kept' = {}
    /\ moments' = <<Contents(tree)>>
    /\ UNCHANGED <<tree, lookups>>

RangeSafeStart(lo, hi) ==
    /\ Idle
    /\ lo <= hi
    /\ it' = RangeSafe(tree, lo, hi)
    /\ out' = <<>>
    /\ ended' = FALSE
    /\ last' = Call("RangeSafe", lo, hi, TRUE)
    /\ kept' = {}
    /\ moments' = <<Contents(tree)>>
    /\ UNCHANGED <<tree, lookups>>

\* Put and Delete while the caller holds the iterator, before or after its
\* Next() has returned false: at most MaxMoments - 1 of them for one iterator
PutAmid(k, v) ==
    /\ it.kind # "none"
    /\ Len(moments) < MaxMoments
    /\ \E c \in {Compact(Put(tree, k, v), it)} :
          /\ tree' = c.m
          /\ it' = c.it
          /\ moments' = Append(moments, Contents(c.m))
    /\ UNCHANGED <<out, ended, last, kept, lookups>>

DeleteAmid(k) ==
    /\ it.kind # "none"
    /\ Len(moments) < MaxMoments
    /\ \E c \in {Compact(Delete(tree, k).m, it)} :
          /\ tree' = c.m
          /\ it' = c.it
          /\ moments' = Append(moments, Contents(c.m))
    /\ UNCHANGED <<out, ended, last, kept, lookups>>

NextAmid ==
    \/ \E k \in FewKeys, v \in FewVals : PutCall(k, v)
    \/ \E k \in FewKeys : DeleteCall(k)
    \/ IterStart
    \/ \E lo \in FewKeys, hi \in FewKeys : RangeStart(lo, hi)
    \/ IterSafeStart
    \/ \E lo \in FewKeys, hi \in FewKeys : RangeSafeStart(lo, hi)
    \/ NextCall
    \/ NextSafeCall
    \/ \E k \in FewKeys, v \in FewVals : PutAmid(k, v)
    \/ \E k \in FewKeys : DeleteAmid(k)

SpecAmid == Init /\ [][NextAmid]_vars

\* ------------------------------------------------- concurrent lookups
\* Get and Exist hold the read lock, which several goroutines hold at once,
\* and get() ends in tree.stats.Get.Found++ or tree.stats.Get.NotFound++: a
\* read of the counter and a write of the value read plus one, with no
\* synchronisation between the goroutines.  Put holds the write lock and
\* runs when no lookup is running.
AllIdle == \A g \in Goroutines : lookups[g].pc = "idle"

\* goroutine g enters Get(name) or Exist(name), searches the key and reads
\* the counter to increment
GetLoad(g, name) ==
    /\ lookups[g].pc = "idle"
    /\ lookups[g].found + lookups[g].notFound < MaxLookups
    /\ \E field \in {IF get(tree.h, tree.root, name) # Nil
                      THEN "Found" ELSE "NotFound"} :
          lookups' = [lookups EXCEPT ![g].pc = "store",
                                     ![g].field = field,
                                     ![g].reg = tree.stats.Get[field]]
    /\ UNCHANGED <<tree, it, out, ended, last, kept, moments>>

\* goroutine g writes the counter and returns
GetStore(g) ==
    /\ lookups[g].pc = "store"
    /\ tree' = [tree EXCEPT !.stats.Get[lookups[g].field] = lookups[g].reg + 1]
    /\ lookups' = [lookups EXCEPT
                      ![g].pc = "idle",
                      ![g].found = @ + (IF lookups[g].field = "Found" THEN 1 ELSE 0),
                      ![g].notFound = @ + (IF lookups[g].field = "NotFound" THEN 1 ELSE 0)]
    /\ UNCHANGED <<it, out, ended, last, kept, moments>>

PutBetween(k, v) == AllIdle /\ PutCounted(k, v)

NextLookups ==
    \/ \E k \in FewKeys, v \in FewVals : PutBetween(k, v)
    \/ \E g \in Goroutines, k \in FewKeys : GetLoad(g, k)
    \/ \E g \in Goroutines : GetStore(g)

SpecLookups == InitStats /\ [][NextLookups]_vars

\* ---------------------------------------------------------- two trees
\* A second Tree made by New() lives in the same memory: its struct is the
\* field other, the heap and pstats, a variable of the package, are the
\* same for both.  Swap(m) is the memory with the other Tree as the receiver
\* of the methods.
NewOther == [root |-> Nil, len |-> 0, stats |-> NoStats]

Swap(m) ==
    [m EXCEPT !.root = m.other.root, !.len = m.other.len,
              !.stats = m.other.stats,
              !.other = [root |-> m.root, len |-> m.len, stats |-> m.stats]]

InitTwo ==
    /\ tree = [h |-> <<>>, root |-> Nil, len |-> 0,
               stats |-> NoStats, pstats |-> NoPerf, other |-> NewOther]
    /\ it = NoIter
    /\ out = <<>>
    /\ ended = FALSE
    /\ last = Call("New", ZeroKey, NilData, TRUE)
    /\ kept = {}
    /\ moments = <<>>
    /\ lookups = NoLookups

\* Stats() of the other Tree
OtherStatsCall ==
    /\ \E r \in {Stats(Swap(tree))} :
          /\ tree' = Swap(r.m)
          /\ last' = Call("OtherStats", ZeroKey, NilData, r.stats)
    /\ UNCHANGED <<it, out, ended, kept, moments, lookups>>

\* The program when the caller uses Put, Delete and ResetStats on one Tree
\* and Stats on another.
NextTwo ==
    \/ \E k \in FewKeys, v \in FewVals : PutCounted(k, v)
    \/ \E k \in FewKeys : DeleteCounted(k)
    \/ ResetStatsCall
    \/ OtherStatsCall

SpecTwo == InitTwo /\ [][NextTwo]_vars

\* ------------------------------------------------------- growth of a tree
\* The keys of TestGrowh are one-letter strings, which Go orders as the
\* alphabet does; a key of the model is the rank of its letter among these.
Letters == <<"A", "B", "C", "D", "E", "I", "N", "R", "S", "X">>

Rank(c) == CHOOSE i \in 1..Len(Letters) : Letters[i] = c

\* the order in which the keys are put, and then deleted
Growth == <<"A", "S", "E", "R", "C", "D", "I", "N", "B", "X">>

GrowthPut(v) ==
    /\ last.op \in {"New", "Put"}
    /\ TreeLen(tree) < Len(Growth)
    /\ PutCall(Rank(Growth[TreeLen(tree) + 1]), v)

GrowthDelete ==
    /\ \/ last.op = "Put" /\ TreeLen(tree) = Len(Growth)
       \/ last.op = "Delete" /\ TreeLen(tree) > 0
    /\ DeleteCall(Rank(Growth[Len(Growth) - TreeLen(tree) + 1]))

NextGrowth ==
    \/ \E v \in Vals : GrowthPut(v)
    \/ GrowthDelete

SpecGrowth == Init /\ [][NextGrowth]_vars

\* ------------------------------------------------------ nil dereferences
\* A read or a write through a nil pointer panics.  For each function,
\* <function>Safe says that a call with these arguments dereferences no nil
\* pointer: it follows the statements of the function in their order and
\* asks, before each dereference that no test of the source protects, that
\* the pointer is there.  A dereference that follows isRed(p) = true, or
\* p != nil, in the source needs no condition here.

\* node.left.red and node.right.red
flipColorSafe(m, node) ==
    /\ node # Nil
    /\ m.h[node].left # Nil
    /\ m.h[node].right # Nil

\* n := node.right; n.up
rotateLeftSafe(m, node) == node # Nil /\ m.h[node].right # Nil

\* n := node.left; n.up
rotateRightSafe(m, node) == node # Nil /\ m.h[node].left # Nil

moveRedLeftSafe(m, node) ==
    LET \* if isRed(node.right.right)
        e(z, n) == LLRB234 => z.h[n].right # Nil
        \* flipColor(node)
        d(r) == flipColorSafe(r.m, r.node) /\ e(flipColor(r.m, r.node), r.node)
        \* node = rotateLeft(node)
        c(y) == rotateLeftSafe(y, node) /\ d(rotateLeft(y, node))
        \* node.right = rotateRight(node.right)
        b(x) == /\ rotateRightSafe(x, x.h[node].right)
                /\ c(SetRight(rotateRight(x, x.h[node].right), node))
        \* if isRed(node.right.left)
        a(x) == /\ x.h[node].right # Nil
                /\ isRed(x.h, x.h[x.h[node].right].left) => b(x)
    IN  flipColorSafe(m, node) /\ a(flipColor(m, node))

moveRedRightSafe(m, node) ==
    LET \* flipColor(node)
        c(r) == flipColorSafe(r.m, r.node)
        \* node = rotateRight(node)
        b(x) == rotateRightSafe(x, node) /\ c(rotateRight(x, node))
        \* if isRed(node.left.left)
        a(x) == /\ x.h[node].left # Nil
                /\ isRed(x.h, x.h[x.h[node].left].left) => b(x)
    IN  flipColorSafe(m, node) /\ a(flipColor(m, node))

\* isRed(node.right), isRed(node.left): every other dereference of fixNode
\* follows an isRed that has answered true for the pointer
fixNodeSafe(m, node) == node # Nil

RECURSIVE deleteMinSafe(_, _)
deleteMinSafe(m, node) ==
    LET \* node = moveRedLeft(node)
        moves(x) == /\ ~isRed(x.h, x.h[node].left)
                    /\ ~isRed(x.h, x.h[x.h[node].left].left)
        s1(x) == IF moves(x) THEN moveRedLeft(x, node)
                 ELSE [m |-> x, node |-> node]
        \* return fixNode(node), min
        c(d, n) == fixNodeSafe(SetLeft(d, n), n)
        \* node.left, min = deleteMin(node.left)
        b(r) == /\ deleteMinSafe(r.m, r.m.h[r.node].left)
                /\ c(deleteMin(r.m, r.m.h[r.node].left), r.node)
        a(x) == /\ moves(x) => moveRedLeftSafe(x, node)
                /\ b(s1(x))
    IN  /\ node # Nil
        /\ m.h[node].left = Nil \/ a(m)

RECURSIVE putSafe(_, _, _, _)
putSafe(m, node, name, data) ==
    LET splits(x) == /\ LLRB234
                     /\ isRed(x.h, x.h[node].left)
                     /\ isRed(x.h, x.h[node].right)
        s1(x) == IF splits(x) THEN flipColor(x, node) ELSE x
        \* node.left = tree.put(node.left, name, data); node.left.up = node
        b(x) == IF isLess(name, x.h[node].name)
                THEN /\ putSafe(x, x.h[node].left, name, data)
                     /\ put(x, x.h[node].left, name, data).node # Nil
                ELSE IF isLess(x.h[node].name, name)
                THEN /\ putSafe(x, x.h[node].right, name, data)
                     /\ put(x, x.h[node].right, name, data).node # Nil
                ELSE TRUE
        a(x) == /\ splits(x) => flipColorSafe(x, node)
                /\ b(s1(x))
    IN  node = Nil \/ a(m)

RECURSIVE deleteSafe(_, _, _)
deleteSafe(m, node, name) ==
    LET \* ---- name is less than node.name
        movesLeft(x) == /\ x.h[node].left # Nil
                        /\ ~isRed(x.h, x.h[node].left)
                        /\ ~isRed(x.h, x.h[x.h[node].left].left)
        l1(x) == IF movesLeft(x) THEN moveRedLeft(x, node)
                 ELSE [m |-> x, node |-> node]
        lc(d, n) == fixNodeSafe(SetLeft(d, n), n)
        lb(r) == /\ deleteSafe(r.m, r.m.h[r.node].left, name)
                 /\ lc(delete(r.m, r.m.h[r.node].left, name), r.node)
        la(x) == /\ movesLeft(x) => moveRedLeftSafe(x, node)
                 /\ lb(l1(x))
        \* ---- right or equal
        r1(x) == IF isRed(x.h, x.h[node].left)
                 THEN rotateRight(x, node)
                 ELSE [m |-> x, node |-> node]
        bottom(r) == /\ r.m.h[r.node].right = Nil
                     /\ ~isLess(r.m.h[r.node].name, name)
        movesRight(r) == /\ r.m.h[r.node].right # Nil
                         /\ ~isRed(r.m.h, r.m.h[r.node].right)
                         /\ ~isRed(r.m.h, r.m.h[r.m.h[r.node].right].left)
        r3(r) == IF movesRight(r) THEN moveRedRight(r.m, r.node) ELSE r
        \* node.name = min.name
        re(d, n) == d.min # Nil /\ fixNodeSafe(SetRight(d, n), n)
        \* node.right, min = deleteMin(node.right)
        rd(r) == /\ deleteMinSafe(r.m, r.m.h[r.node].right)
                 /\ re(deleteMin(r.m, r.m.h[r.node].right), r.node)
        \* node.right, deleted = tree.delete(node.right, name)
        rf(r) == /\ deleteSafe(r.m, r.m.h[r.node].right, name)
                 /\ fixNodeSafe(SetRight(delete(r.m, r.m.h[r.node].right, name),
                                         r.node), r.node)
        rc(r) == /\ r.node # Nil
                 /\ IF ~isLess(r.m.h[r.node].name, name) THEN rd(r) ELSE rf(r)
        rb(r) == \/ bottom(r)
                 \/ /\ movesRight(r) => moveRedRightSafe(r.m, r.node)
                    /\ rc(r3(r))
        ra(x) == rb(r1(x))
    IN  \/ node = Nil
        \/ IF isLess(name, m.h[node].name) THEN la(m) ELSE ra(m)

\* tree.root = tree.put(tree.root, name, data); tree.root.red = false
PutSafe(m, name, data) ==
    /\ putSafe(m, m.root, name, data)
    /\ put(m, m.root, name, data).node # Nil

\* tree.root, deleted = tree.delete(tree.root, name)
DeleteSafe(m, name) == deleteSafe(m, m.root, name)

\* The program when a call that dereferences a nil pointer panics and ends
\* it: last holds the call that has panicked.
Running == last.op # "panic"

PutOrPanic(k, v) ==
    /\ Running
    /\ IF PutSafe(tree, k, v)
       THEN PutCall(k, v)
       ELSE /\ last' = Call("panic", k, v, "Put")
            /\ UNCHANGED <<tree, it, out, ended, kept, moments, lookups>>

DeleteOrPanic(k) ==
    /\ Running
    /\ IF DeleteSafe(tree, k)
       THEN DeleteCall(k)
       ELSE /\ last' = Call("panic", k, NilData, "Delete")
            /\ UNCHANGED <<tree, it, out, ended, kept, moments, lookups>>

NextPanic ==
    \/ \E k \in Keys, v \in Vals : PutOrPanic(k, v)
    \/ \E k \in Keys : DeleteOrPanic(k)

SpecPanic == Init /\ [][NextPanic]_vars

\* -------------------------------------------------------- integrity checks
NoErr == "nil"

checkRoot(h, root) ==
    IF isRed(h, root) THEN "root property violation found" ELSE NoErr

RECURSIVE checkRed(_, _)
checkRed(h, node) ==
    IF node = Nil THEN NoErr
    ELSE IF isRed(h, node) /\ (isRed(h, h[node].right) \/ isRed(h, h[node].left))
    THEN "red property violation found"
    ELSE LET err == checkRed(h, h[node].right)
         IN  IF err # NoErr THEN err ELSE checkRed(h, h[node].left)

RECURSIVE checkBlack(_, _)
checkBlack(h, node) ==
    IF node = Nil THEN [err |-> NoErr, length |-> 1]
    ELSE LET r == checkBlack(h, h[node].right)
         IN  IF r.err # NoErr THEN [err |-> r.err, length |-> 0]
             ELSE LET l == checkBlack(h, h[node].left)
                  IN  IF l.err # NoErr THEN [err |-> l.err, length |-> 0]
                      ELSE IF r.length # l.length
                      THEN [err |-> "black property violation found", length |-> 0]
                      ELSE IF ~isRed(h, node)
                      THEN [err |-> NoErr, length |-> r.length + 1]
                      ELSE [err |-> NoErr, length |-> r.length]

RECURSIVE checkLLRB(_, _)
checkLLRB(h, node) ==
    IF node = Nil THEN NoErr
    ELSE IF isRed(h, h[node].right) /\ ~isRed(h, h[node].left)
    THEN "LLRB property violation found"
    ELSE LET err == checkLLRB(h, h[node].right)
         IN  IF err # NoErr THEN err ELSE checkLLRB(h, h[node].left)

\* Check that starts at the red property
CheckNoRoot(m) ==
    IF checkRed(m.h, m.root) # NoErr THEN checkRed(m.h, m.root)
    ELSE IF checkBlack(m.h, m.root).err # NoErr
    THEN checkBlack(m.h, m.root).err
    ELSE checkLLRB(m.h, m.root)

Check(m) ==
    IF checkRoot(m.h, m.root) # NoErr THEN checkRoot(m.h, m.root)
    ELSE IF checkRed(m.h, m.root) # NoErr THEN checkRed(m.h, m.root)
    ELSE IF checkBlack(m.h, m.root).err # NoErr
    THEN checkBlack(m.h, m.root).err
    ELSE checkLLRB(m.h, m.root)

\* The coloured binary trees of n nodes: <<>> is the empty tree and
\* <<red, left, right>> a node of that colour over two trees.
RECURSIVE Trees(_)
Trees(n) ==
    IF n = 0 THEN {<<>>}
    ELSE UNION {{<<red, l, r>> : red \in BOOLEAN,
                                 l \in Trees(i), r \in Trees(n - 1 - i)} :
                i \in 0..(n - 1)}

RECURSIVE Size(_)
Size(t) == IF t = <<>> THEN 0 ELSE 1 + Size(t[2]) + Size(t[3])

\* the nodes of t in memory, under the node up, with the keys from lo on in
\* ascending order
RECURSIVE Load(_, _, _, _)
Load(t, m, up, lo) ==
    IF t = <<>> THEN [m |-> m, node |-> Nil]
    ELSE LET name  == lo + Size(t[2])
             n     == newNode(m, name, MaxVal)
             s1(x) == [x EXCEPT !.h[n.node].red = t[1]]
             s2(x) == [x EXCEPT !.h[n.node].up = up]
             s3(x) == SetLeft(Load(t[2], x, n.node, lo), n.node)
             s4(x) == SetRight(Load(t[3], x, n.node, name + 1), n.node)
         IN  [m |-> s4(s3(s2(s1(n.m)))), node |-> n.node]

TreeOf(t) ==
    LET r == Load(t, [h |-> <<>>, root |-> Nil, len |-> 0], Nil, 1)
    IN  [r.m EXCEPT !.root = r.node, !.len = Size(t)]

InitCheck ==
    /\ tree \in {TreeOf(t) : t \in UNION {Trees(n) : n \in 0..MaxNodes}}
    /\ it = NoIter
    /\ out = <<>>
    /\ ended = FALSE
    /\ last = Call("New", ZeroKey, NilData, TRUE)
    /\ kept = {}
    /\ moments = <<>>
    /\ lookups = NoLookups

CheckCall ==
    /\ last.op = "New"
    /\ last' = Call("Check", ZeroKey, NilData, Check(tree))
    /\ UNCHANGED <<tree, it, out, ended, kept>>
    /\ UNCHANGED <<moments, lookups>>

NextCheck == CheckCall

SpecCheck == InitCheck /\ [][NextCheck]_vars

\* ------------------------------------------------------------------ claims
\* the nodes of the subtree of node, over the left and right links
RECURSIVE Subtree(_, _)
Subtree(h, node) ==
    IF node = Nil THEN {}
    ELSE {node} \cup Subtree(h, h[node].left) \cup Subtree(h, h[node].right)

PresentKeys(m) == {k \in Keys : Exist(m, k)}

\* the elements of a set of keys in increasing order
RECURSIVE Ascending(_)
Ascending(S) ==
    IF S = {} THEN <<>>
    ELSE LET x == CHOOSE y \in S : \A z \in S : y <= z
         IN  <<x>> \o Ascending(S \ {x})

\* C1: every Put, Delete and Clear changes what Get and Exist answer exactly
\* as it changes a map: Put(k, v) makes Get(k) = v, Delete(k) and Clear make
\* the key absent (Get nil, Exist false), every other key answers as before,
\* and the new tree answers nil and false for every key.
C1_Step ==
    \A j \in Keys :
        /\ last'.op = "Put" =>
              /\ Get(tree', j) = IF j = last'.key THEN last'.val ELSE Get(tree, j)
              /\ Exist(tree', j) = IF j = last'.key THEN TRUE ELSE Exist(tree, j)
        /\ last'.op = "Delete" =>
              /\ Get(tree', j) = IF j = last'.key THEN NilData ELSE Get(tree, j)
              /\ Exist(tree', j) = IF j = last'.key THEN FALSE ELSE Exist(tree, j)
        /\ last'.op = "Clear" =>
              /\ Get(tree', j) = NilData
              /\ ~Exist(tree', j)

C1_Empty == \A j \in Keys : Get(tree, j) = NilData /\ ~Exist(tree, j)

C1_RefinesMap == C1_Empty /\ [][C1_Step]_vars

C1_Witness ==
    /\ last.op = "Delete"
    /\ \E j \in Keys : Get(tree, j) = 1
    /\ \E j \in Keys : Get(tree, j) = 2
    /\ \E j \in Keys : ~Exist(tree, j)

\* C2: after every Put, Delete or Clear, Len() is the number of keys present
\* and the number of nodes reachable from the root.
C2_LenCounts ==
    /\ TreeLen(tree) = Cardinality(PresentKeys(tree))
    /\ TreeLen(tree) = Cardinality(Subtree(tree.h, tree.root))

C2_Witness == last.op = "Delete" /\ TreeLen(tree) = 3

\* C3: after every Put or Delete, checkBlack reports no violation: every path
\* from a node to an empty subtree crosses the same number of black nodes.
C3_BlackHeight == checkBlack(tree.h, tree.root).err = NoErr

C3_Witness ==
    /\ last.op = "Delete"
    /\ checkBlack(tree.h, tree.root).length = 3

\* C4: after every Put or Delete, checkRed reports no violation: no red node
\* has a red child.
C4_LocalRed == checkRed(tree.h, tree.root) = NoErr

C4_Witness ==
    /\ last.op \in {"Put", "Delete"}
    /\ Cardinality({n \in Subtree(tree.h, tree.root) : tree.h[n].red}) >= 2

\* C5: after every Put or Delete, checkLLRB reports no violation: a node with
\* a red right child has a red left child.
C5_LeftLeaning == checkLLRB(tree.h, tree.root) = NoErr

C5_Witness ==
    /\ last.op = "Delete"
    /\ \E n \in Subtree(tree.h, tree.root) :
          isRed(tree.h, tree.h[n].right) /\ isRed(tree.h, tree.h[n].left)

\* C6: after every Put, Delete or Clear, the root, if present, is black
\* (checkRoot reports no violation).
C6_RootBlack == checkRoot(tree.h, tree.root) = NoErr

C6_Witness ==
    /\ last.op = "Put"
    /\ tree.root # Nil
    /\ isRed(tree.h, tree.h[tree.root].left)

\* C7: Delete(k) of a present key returns true and decreases Len() by one.
C7_DeletePresent ==
    [][(last'.op = "Delete" /\ Exist(tree, last'.key))
         => (last'.ret = TRUE /\ TreeLen(tree') = TreeLen(tree) - 1)]_vars

\* C8: Delete(k) of an absent key returns false and changes neither the keys
\* present, nor the value of any key, nor Len().
C8_DeleteAbsent ==
    [][(last'.op = "Delete" /\ ~Exist(tree, last'.key))
         => /\ last'.ret = FALSE
            /\ TreeLen(tree') = TreeLen(tree)
            /\ \A j \in Keys : /\ Exist(tree', j) = Exist(tree, j)
                               /\ Get(tree', j) = Get(tree, j)]_vars

\* Delete has returned false and left the tree empty: the tree was empty
\* before, since a Delete that removes the only node returns true.
C8_Witness ==
    /\ last.op = "Delete"
    /\ last.ret = FALSE
    /\ tree.root = Nil
    /\ TreeLen(tree) = 0

\* C9: a loop over Iter() that runs with no mutation until Next() returns
\* false has read every present key once, in increasing order.
C9_IterAll ==
    (last.op = "Iter" /\ ended) => out = Ascending(PresentKeys(tree))

\* C10: a loop over Range(lo, hi) that runs with no mutation until Next()
\* returns false has read exactly the present keys k with lo <= k <= hi, in
\* increasing order.
C10_RangeAll ==
    (last.op = "Range" /\ ended)
        => out = Ascending({k \in PresentKeys(tree) :
                               last.key <= k /\ k <= last.val})

\* the smallest and the largest element of a set of keys
Least(S) == CHOOSE x \in S : \A y \in S : x <= y

Greatest(S) == CHOOSE x \in S : \A y \in S : y <= x

\* what a getter returns when the key it has to find is the one of S chosen
\* by pick, and S holds the keys that qualify
Nearest(S, pick(_)) ==
    IF S = {}
    THEN [key |-> ZeroKey, val |-> NilData, found |-> FALSE]
    ELSE [key |-> pick(S), val |-> Get(tree, pick(S)), found |-> TRUE]

\* C11: for every boundary k, present or not, Bigger(k) returns the smallest
\* present key strictly greater than k with its value, EqualOrBigger(k) the
\* smallest present key greater than or equal to k with its value, and each
\* reports absent exactly when no such key is present.
C11_Bigger ==
    /\ last.op = "Bigger" =>
          last.ret = Nearest({j \in PresentKeys(tree) : j > last.key}, Least)
    /\ last.op = "EqualOrBigger" =>
          last.ret = Nearest({j \in PresentKeys(tree) : j >= last.key}, Least)

\* EqualOrBigger of a boundary that is not a key found a key, in a tree of
\* three keys or more
C11_Witness ==
    /\ last.op = "EqualOrBigger"
    /\ ~Exist(tree, last.key)
    /\ last.ret.found
    /\ TreeLen(tree) >= 3

C13_MinMax ==
    /\ last.op = "Min" => last.ret = Nearest(PresentKeys(tree), Least)
    /\ last.op = "Max" => last.ret = Nearest(PresentKeys(tree), Greatest)

\* Max found a key that is not at the root of a tree of four keys or more
C13_Witness ==
    /\ last.op = "Max"
    /\ last.ret.found
    /\ TreeLen(tree) >= 4
    /\ last.ret.key # tree.h[tree.root].name

\* the value held by the node of key k under the root
Stored(m, k) ==
    LET n == CHOOSE x \in Subtree(m.h, m.root) : m.h[x].name = k
    IN  m.h[n].data

\* C14: with no mutation during the loop, Next()/Key() on IterSafe() yield
\* all present keys in strictly increasing order, each exactly once, and
\* Val() returns the value stored for the key just returned.
C14_IterSafeAll ==
    last.op = "IterSafe" =>
        /\ ended => out = Ascending(PresentKeys(tree))
        /\ out # <<>> =>
              /\ IterSafeKey(it) = out[Len(out)]
              /\ IterSafeKey(it) \in PresentKeys(tree)
              /\ IterSafeVal(tree, it) = Stored(tree, IterSafeKey(it))

\* a loop over IterSafe() has ended after four keys or more, on a tree that
\* holds two different values
C14_Witness ==
    /\ last.op = "IterSafe"
    /\ ended
    /\ Len(out) >= 4
    /\ \E j \in Keys, k \in Keys :
          Exist(tree, j) /\ Exist(tree, k) /\ Get(tree, j) # Get(tree, k)

\* C15: with no mutation during the loop, RangeSafe(lo, hi) yields exactly
\* the present keys k with lo <= k <= hi, in increasing order.
C15_RangeSafeAll ==
    (last.op = "RangeSafe" /\ ended) =>
        out = Ascending({k \in PresentKeys(tree) :
                            last.key <= k /\ k <= last.val})

\* C16: Map() returns a map with exactly Len() entries that holds every
\* present key mapped to its current value.
C16_MapAll ==
    last.op = "Map" =>
        /\ Cardinality(DOMAIN last.ret) = TreeLen(tree)
        /\ \A k \in PresentKeys(tree) :
              k \in DOMAIN last.ret /\ last.ret[k] = Get(tree, k)

\* C20: Stats().Put.New is the number of Put calls that created a new key
\* and Stats().Put.Update the number of Put calls that overwrote an existing
\* key since the last ResetStats: both are 0 on a new tree and after
\* ResetStats, a Put of an absent key adds one to New only, a Put of a
\* present key adds one to Update only and leaves Len() as it is, and no
\* other call changes either.
C20_Step ==
    LET before == Stats(tree).stats.Put
        after  == Stats(tree').stats.Put
    IN  /\ (last'.op = "Put" /\ ~Exist(tree, last'.key)) =>
              /\ after.New = before.New + 1
              /\ after.Update = before.Update
        /\ (last'.op = "Put" /\ Exist(tree, last'.key)) =>
              /\ after.New = before.New
              /\ after.Update = before.Update + 1
              /\ TreeLen(tree') = TreeLen(tree)
        /\ last'.op = "ResetStats" => (after.New = 0 /\ after.Update = 0)
        /\ last'.op \notin {"Put", "ResetStats"} =>
              (after.New = before.New /\ after.Update = before.Update)

C20_Zero == Stats(tree).stats.Put.New = 0 /\ Stats(tree).stats.Put.Update = 0

C20_PutCounts == C20_Zero /\ [][C20_Step]_vars

\* two Puts of new keys and one Put of a key that was there, in this order
\* or another, since the last ResetStats
C20_Witness ==
    /\ last.op = "Put"
    /\ Stats(tree).stats.Put.New = 2
    /\ Stats(tree).stats.Put.Update = 1

StrictlyIncreasing(q) == \A i \in 1..(Len(q) - 1) : q[i] < q[i + 1]

\* C18: under any interleaving of Put and Delete with the rounds of a loop
\* over IterSafe(), the keys the loop reads are strictly increasing, with no
\* duplicate, and when Next() returns false the loop has read every key that
\* stayed present since the iterator was created.
C18_SafeUnderMutation ==
    (it.kind = "safe" /\ ~it.span) =>
        /\ StrictlyIncreasing(out)
        /\ ended => \A k \in kept : \E i \in 1..Len(out) : out[i] = k

\* a loop has ended after a Put and a Delete ran during it, with two keys or
\* more that stayed, and it read a key that is present no more
C18_Witness ==
    /\ it.kind = "safe"
    /\ ended
    /\ last.op \in {"Put", "Delete"}
    /\ Cardinality(kept) >= 2
    /\ \E i \in 1..Len(out) : ~Exist(tree, out[i])
    /\ \E k \in Keys : Exist(tree, k) /\ k \notin kept

\* C19: the key made available by each successful Next() of a safe iterator
\* is present in the container as it is when that Next() is called, and is
\* the smallest key strictly greater than the key returned before (the
\* minimum for the first call).
C19_NextSeesCurrent ==
    [][(it.kind = "safe" /\ ~it.span /\ Len(out') = Len(out) + 1) =>
          LET S == {k \in PresentKeys(tree) :
                       out = <<>> \/ k > out[Len(out)]}
          IN  S # {} /\ out'[Len(out')] = Least(S)]_vars

\* C17: each mutation is atomic to its observers: what a goroutine reads
\* while a Delete runs reflects the container before or after the whole
\* Delete.  For Key() followed by Val() on a fast iterator, both calls see
\* the node as it was before Delete, or both as it is after, or Key() sees
\* it as before and Val() as after; never a key of the container after
\* Delete paired with the value the node had before.
C17_Atomic ==
    [][last'.op = "DeleteRacing" =>
          LET after == Delete(tree, last'.key).m
              seen == <<last'.ret.key, last'.ret.val>>
          IN  \/ seen = <<Key(tree, it), Val(tree, it)>>
              \/ seen = <<Key(tree, it), Val(after, it)>>
              \/ seen = <<Key(after, it), Val(after, it)>>]_vars

\* deleteUntilCopy passes the copy of the name exactly when Delete removes a
\* present key and returns false, and the name it leaves in every node is
\* the name the node has after Delete
CopyMoment ==
    \A k \in Keys :
        LET c == deleteUntilCopy(tree, tree.root, k)
            r == Delete(tree, k)
        IN  /\ c.hit <=> (Exist(tree, k) /\ ~r.deleted)
            /\ c.hit => \A n \in Subtree(r.m.h, r.m.root) :
                            c.m.h[n].name = r.m.h[n].name

\* C21: Clear() drops all entries: afterwards Len() is 0, every key is
\* absent, Min and Max report not found and the iterators (fast and safe,
\* full and ranged) yield nothing; and Stats() reports for every counter the
\* value it reported before the call.
C21_ClearDrops ==
    [][last'.op = "Clear" =>
          /\ TreeLen(tree') = 0
          /\ \A k \in Keys : ~Exist(tree', k) /\ Get(tree', k) = NilData
          /\ ~Min(tree').found
          /\ ~Max(tree').found
          /\ ~IterNext(tree', Iter(tree')).ret
          /\ ~IterSafeNext(tree', IterSafe(tree')).ret
          /\ \A lo \in Bounds, hi \in Bounds :
                /\ ~IterNext(tree', Range(tree', lo, hi)).ret
                /\ ~IterSafeNext(tree', RangeSafe(tree', lo, hi)).ret
          /\ Stats(tree').stats = Stats(tree).stats]_vars

\* Clear has emptied a tree after two Puts of new keys or more, a Delete and
\* a rotation were counted
C21_Witness ==
    /\ last.op = "Clear"
    /\ tree.root = Nil
    /\ tree.stats.Put.New >= 2
    /\ tree.stats.Delete.Deleted + tree.stats.Delete.NotFound >= 1
    /\ tree.pstats.Rotate.Left >= 1

\* what Stats() of the other Tree reports for the rotations and the flips
OtherPerf(m) ==
    LET perf == Stats(Swap(m)).stats.Perf
    IN  <<perf.Rotate.Left, perf.Rotate.Right, perf.Flip>>

\* C22: the rotation and flip counters are owned per container: Put, Delete
\* and ResetStats on one Tree never change the Perf.Rotate.Left,
\* Perf.Rotate.Right or Perf.Flip that Stats() of a different Tree reports.
C22_PerfPerTree ==
    [][last'.op \in {"Put", "Delete", "ResetStats"} =>
          OtherPerf(tree') = OtherPerf(tree)]_vars

\* the tree under node: the letter and the colour of the node, then its
\* left and its right subtree
RECURSIVE Shape(_, _)
Shape(h, node) ==
    IF node = Nil THEN <<>>
    ELSE <<Letters[h[node].name], IF h[node].red THEN "red" ELSE "black",
           Shape(h, h[node].left), Shape(h, h[node].right)>>

GrownTree ==
    <<"E", "black",
      <<"C", "black",
        <<"B", "black", <<"A", "red", <<>>, <<>>>>, <<>>>>,
        <<"D", "black", <<>>, <<>>>>>>,
      <<"R", "black",
        <<"N", "black", <<"I", "red", <<>>, <<>>>>, <<>>>>,
        <<"X", "black", <<"S", "red", <<>>, <<>>>>, <<>>>>>>>>

\* C23: putting the keys A, S, E, R, C, D, I, N, B, X in this order into an
\* empty 2-3-4 tree yields root E black; E.left = C black with children B
\* black (whose left child is A red) and D black; E.right = R black with
\* children N black (whose left child is I red) and X black (whose left
\* child is S red); and no other node.
C23_Growth ==
    (last.op = "Put" /\ TreeLen(tree) = Len(Growth)) =>
        Shape(tree.h, tree.root) = GrownTree

\* the ten keys have been put
C23_Witness ==
    /\ last.op = "Put"
    /\ last.key = Rank("X")
    /\ TreeLen(tree) = Len(Growth)
    /\ Cardinality(Subtree(tree.h, tree.root)) = Len(Growth)

RootBlack(m) == ~isRed(m.h, m.root)

NoRedRed(m) ==
    \A n \in Subtree(m.h, m.root) :
        m.h[n].red => ~isRed(m.h, m.h[n].left) /\ ~isRed(m.h, m.h[n].right)

\* the numbers of black nodes on the paths from node to an empty subtree
RECURSIVE BlackCounts(_, _)
BlackCounts(h, node) ==
    IF node = Nil THEN {0}
    ELSE {c + (IF h[node].red THEN 0 ELSE 1) :
            c \in BlackCounts(h, h[node].left) \cup BlackCounts(h, h[node].right)}

EqualBlack(m) == Cardinality(BlackCounts(m.h, m.root)) = 1

LeftLeaning(m) ==
    \A n \in Subtree(m.h, m.root) :
        isRed(m.h, m.h[n].right) => isRed(m.h, m.h[n].left)

\* C24: for every coloured binary tree Check() returns nil exactly when the
\* root is not red, no red node has a red child, all paths to empty subtrees
\* have the same number of black nodes and no node has a red right child
\* without a red left child; otherwise it returns the error of the first
\* property that fails, in the order root, red, black, LLRB.
C24_Check ==
    last.op = "Check" =>
        last.ret = (IF ~RootBlack(tree) THEN "root property violation found"
                    ELSE IF ~NoRedRed(tree) THEN "red property violation found"
                    ELSE IF ~EqualBlack(tree)
                    THEN "black property violation found"
                    ELSE IF ~LeftLeaning(tree)
                    THEN "LLRB property violation found"
                    ELSE NoErr)

\* Check() has passed three properties of a tree of MaxNodes nodes and
\* failed the last
C24_Witness ==
    /\ last.op = "Check"
    /\ last.ret = "LLRB property violation found"
    /\ Cardinality(Subtree(tree.h, tree.root)) = MaxNodes

\* the keys of the subtree of node, read left subtree, node, right subtree
RECURSIVE InOrder(_, _)
InOrder(h, node) ==
    IF node = Nil THEN <<>>
    ELSE InOrder(h, h[node].left) \o <<h[node].name>> \o InOrder(h, h[node].right)

\* C25: after every Put or Delete, every key in the left subtree of a node is
\* less than the key of the node and every key in its right subtree is
\* greater: the keys read in order over the left and right links increase
\* strictly, so no key is there twice.
C25_SearchOrder ==
    /\ \A n \in Subtree(tree.h, tree.root) :
          /\ \A l \in Subtree(tree.h, tree.h[n].left) :
                tree.h[l].name < tree.h[n].name
          /\ \A r \in Subtree(tree.h, tree.h[n].right) :
                tree.h[r].name > tree.h[n].name
    /\ StrictlyIncreasing(InOrder(tree.h, tree.root))

\* Delete has removed a key and left a root over two subtrees, one of them
\* of more than one node
C25_Witness ==
    /\ last.op = "Delete"
    /\ last.ret = TRUE
    /\ tree.root # Nil
    /\ tree.h[tree.root].left # Nil
    /\ tree.h[tree.root].right # Nil
    /\ Cardinality(Subtree(tree.h, tree.root)) >= 4

\* C26: after every Put or Delete, the up reference of every node that is
\* the left or the right child of a node p is p, and the up reference of the
\* root is nil.
C26_UpIsParent ==
    last.op \in {"Put", "Delete"} =>
        /\ tree.root # Nil => tree.h[tree.root].up = Nil
        /\ \A p \in Subtree(tree.h, tree.root) :
              /\ tree.h[p].left # Nil => tree.h[tree.h[p].left].up = p
              /\ tree.h[p].right # Nil => tree.h[tree.h[p].right].up = p

\* C27: with no mutation during the loop, every key that a fast iterator
\* (Iter or Range) returns is present in the tree and strictly greater than
\* the key it returned before: no removed key, no duplicate, no step back.
C27_FastIterKeys ==
    last.op \in {"Iter", "Range"} =>
        /\ \A i \in 1..Len(out) : Exist(tree, out[i])
        /\ StrictlyIncreasing(out)

\* a loop over Iter() has read three keys or more of a tree that Delete has
\* rebalanced, and has stopped before the last present key
C27_Witness ==
    /\ last.op = "Iter"
    /\ ended
    /\ Len(out) >= 3
    /\ out # Ascending(PresentKeys(tree))

\* C28: every Delete call adds one to exactly one of Stats().Delete.Deleted
\* and Stats().Delete.NotFound, and the counters agree with the results:
\* Deleted counts the Delete calls that returned true and NotFound those that
\* returned false since the last ResetStats (both 0 on a new tree and after
\* ResetStats, and no other call changes either).
C28_Step ==
    LET before == Stats(tree).stats.Delete
        after  == Stats(tree').stats.Delete
    IN  /\ (last'.op = "Delete" /\ last'.ret = TRUE) =>
              /\ after.Deleted = before.Deleted + 1
              /\ after.NotFound = before.NotFound
        /\ (last'.op = "Delete" /\ last'.ret = FALSE) =>
              /\ after.Deleted = before.Deleted
              /\ after.NotFound = before.NotFound + 1
        /\ last'.op = "ResetStats" => (after.Deleted = 0 /\ after.NotFound = 0)
        /\ last'.op \notin {"Delete", "ResetStats"} =>
              (after.Deleted = before.Deleted /\ after.NotFound = before.NotFound)

C28_Zero ==
    Stats(tree).stats.Delete.Deleted = 0 /\ Stats(tree).stats.Delete.NotFound = 0

C28_DeleteCounts == C28_Zero /\ [][C28_Step]_vars

\* C29: when Map() runs concurrently with Put and Delete on the same tree,
\* the map it returns is the full contents of the container at one single
\* moment between the start and the end of the call.
C29_MapSnapshot ==
    (last.op = "Map" /\ ended) =>
        \E i \in 1..Len(moments) : last.ret = moments[i]

\* the sum of a field of lookups over the goroutines 1..n
RECURSIVE Total(_, _)
Total(n, f) == IF n = 0 THEN 0 ELSE lookups[n][f] + Total(n - 1, f)

\* C30: when several goroutines call Get or Exist concurrently on one tree,
\* after all calls have returned Stats().Get.Found is the number of lookups
\* that found their key and Stats().Get.NotFound the number that did not: no
\* increment is lost.
C30_LookupCounts ==
    AllIdle =>
        /\ Stats(tree).stats.Get.Found = Total(MaxGoroutines, "found")
        /\ Stats(tree).stats.Get.NotFound = Total(MaxGoroutines, "notFound")

\* C31: for any sequence of Put and Delete from the empty tree, no step of
\* put, delete, deleteMin, moveRedLeft, moveRedRight, fixNode or flipColor
\* dereferences a nil child: flipColor has both children of its node,
\* moveRedLeft and moveRedRight find the sibling they inspect, and deleteMin
\* returns a minimum node.  No call panics.
C31_NoNilDeref == last.op # "panic"

\* Delete has removed a key of a tree that held every key
C31_Witness ==
    /\ last.op = "Delete"
    /\ last.ret = TRUE
    /\ TreeLen(tree) = MaxKey - 1
    /\ Cardinality(Subtree(tree.h, tree.root)) = MaxKey - 1

\* the number of keys of the container when the iterator was created
LenAtStart == Cardinality(DOMAIN moments[1])

C33_CursorUp ==
    (it.kind = "safe" /\ it'.kind = "safe" /\ ~it.done /\ it' # it) =>
        /\ it'.last = it.cur
        /\ it'.done \/ it'.cur > it.cur

\* C33: over a finite key domain and under any interleaving with Put and
\* Delete, repeated Next() calls on a safe iterator (IterSafe or RangeSafe)
\* eventually return false: the cursor key increases strictly at every
\* successful step, so the iteration cannot run forever.
C33_Terminates ==
    /\ [][C33_CursorUp]_vars
    /\ (it.kind = "safe" /\ ~ended) ~> ended

\* Next() has returned false on a safe iterator that went to the last key
\* of the domain, after a Delete during the loop
C33_Witness ==
    /\ it.kind = "safe"
    /\ ended
    /\ last.op = "Delete"
    /\ it.last = MaxFewKey

\* C34: once Next() has returned false on an iterator (fast or safe, full or
\* ranged, one created on an empty tree included), every later Next() on it
\* returns false, whatever Put and Delete calls happen in between.
C34_ExhaustedForever ==
    /\ (it.kind = "fast" /\ ended) => ~IterNext(tree, it).ret
    /\ (it.kind = "safe" /\ ended) => ~IterSafeNext(tree, it).ret

\* Next() has returned false on a safe iterator made on an empty tree, and
\* two calls of Put have given the tree two keys
C34_Witness ==
    /\ it.kind = "safe"
    /\ ended
    /\ out = <<>>
    /\ Len(moments) = MaxMoments
    /\ LenAtStart = 0
    /\ TreeLen(tree) = 2
====
